---- MODULE Spec2Model ----
(***************************************************************************)
(* News-proxy caching layer and consultation booking of                    *)
(* digital-hub-backend.                                                    *)
(*                                                                         *)
(* routes/newsRoutes.js (serverless variant): newsCache is a JS Map, which *)
(* iterates in insertion order; it is modelled as a sequence of entries    *)
(* [key, data, expiry] in insertion order.                                 *)
(*                                                                         *)
(* unnamed/part_000 (always-on variant): newsCache is a NodeCache; its     *)
(* entries are kept in the same form, without a capacity limit.            *)
(*                                                                         *)
(* Time is counted in abstract ticks; the capacity literal, the TTLs and   *)
(* the window and the max of the rate limiter are scaled down so that the  *)
(* over-capacity, the expiry and the over-limit cases are reached within   *)
(* the bounds.                                                             *)
(*                                                                         *)
(* controllers/consultationController.js (server.js and unnamed/part_005), *)
(* routes/chatbotRoutes.js and middleware/validation.js: the booking of a  *)
(* consultation, with consultations.json as the list of its records.       *)
(***************************************************************************)
EXTENDS Integers, Sequences, FiniteSets, TLC

(***************************************************************************)
(* Bounds of the model                                                     *)
(***************************************************************************)
\* number of distinct abstract cache keys of the cache-level specifications
NumKeys == 3
\* last tick of the clock
MaxTime == 2
\* requests followed beyond max within one window of the rate limiter
MaxOver == 1
\* requests that can be suspended at once, at their upstream call or at
\* an operation on a file
MaxInflight == 2
\* consultation requests (book, status update, delete) received in all
MaxBookings == 2

(***************************************************************************)
(* Program constants (scaled)                                              *)
(***************************************************************************)
\* newsRoutes.js:27  `newsCache.size > 50`; the literal 50, scaled to 2
CACHE_LIMIT == 2
\* newsRoutes.js:10  CACHE_TTL = 5 * 60 * 1000 ms, scaled to 1 tick
CACHE_TTL == 1
\* newsRoutes.js:401 the sources TTL 60 * 60 * 1000 ms, scaled to 2 ticks
SOURCES_TTL == 2

\* newsRoutes.js:111 and :253  Math.min(parseInt(pageSize), 50)
PAGE_SIZE_MAX_SERVERLESS == 50
\* unnamed/part_000:75 and :192  Math.min(parseInt(pageSize), 100)
PAGE_SIZE_MAX_ALWAYSON == 100
\* newsRoutes.js:112  Math.min(parseInt(page), 5)
HEADLINES_PAGE_MAX == 5
\* newsRoutes.js:254  Math.min(parseInt(page), 3)
SEARCH_PAGE_MAX == 3
\* newsRoutes.js:255  q.trim().substring(0, 100)
QUERY_MAX_LEN == 100
\* newsRoutes.js:235  q.trim().length < 2
QUERY_MIN_LEN == 2

\* newsRoutes.js:54  windowMs: 15 * 60 * 1000, scaled to 2 ticks
RATE_WINDOW == 2
\* newsRoutes.js:55  max: 200, scaled to 2
RATE_MAX_SERVERLESS == 2
\* unnamed/part_000:18  max: 100, scaled to 1
RATE_MAX_ALWAYSON == 1

Keys == 1..NumKeys
Datas == {"d1", "d2"}
FillerDatas == {"d1"}
Ttls == {CACHE_TTL, SOURCES_TTL}

VARIABLES newsCache, now, lastOp, watch, variant, req, out, done, env, limiter,
          NEWS_API_KEY, stats, inflight, consultationsFile, uploads, bookings

vars ==
    <<newsCache, now, lastOp, watch, variant, req, out, done, env, limiter,
      NEWS_API_KEY, stats, inflight, consultationsFile, uploads, bookings>>

\* the variables of the key-building specification
keyVars == <<variant, req, out>>

\* the variables of the route-level specification
routeVars == <<done>>

\* the requests suspended at their upstream call
concVars == <<inflight>>

\* consultations.json, the stored resumes and the booking requests
bookVars == <<consultationsFile, uploads, bookings>>

\* NODE_ENV, the state of the rate limiter, whether NEWS_API_KEY is set, the
\* counters of the cache, and the variables of the other specifications
envVars == <<env, limiter, NEWS_API_KEY, stats, concVars, bookVars>>

(***************************************************************************)
(* JavaScript strings are sequences of one-character strings.              *)
(***************************************************************************)
S_headlines == <<"h", "e", "a", "d", "l", "i", "n", "e", "s">>
S_search == <<"s", "e", "a", "r", "c", "h">>
S_sources == <<"s", "o", "u", "r", "c", "e", "s">>
S_general == <<"g", "e", "n", "e", "r", "a", "l">>
S_us == <<"u", "s">>
S_en == <<"e", "n">>
S_all == <<"a", "l", "l">>
S_publishedAt == <<"p", "u", "b", "l", "i", "s", "h", "e", "d", "A", "t">>
S_NaN == <<"N", "a", "N">>
S_1 == <<"1">>
S_20 == <<"2", "0">>

\* validCategories, newsRoutes.js:101
ValidCategories ==
    { <<"b", "u", "s", "i", "n", "e", "s", "s">>,
      <<"e", "n", "t", "e", "r", "t", "a", "i", "n", "m", "e", "n", "t">>,
      <<"g", "e", "n", "e", "r", "a", "l">>,
      <<"h", "e", "a", "l", "t", "h">>,
      <<"s", "c", "i", "e", "n", "c", "e">>,
      <<"s", "p", "o", "r", "t", "s">>,
      <<"t", "e", "c", "h", "n", "o", "l", "o", "g", "y">> }

\* validSortBy, newsRoutes.js:243
ValidSortBy ==
    { <<"r", "e", "l", "e", "v", "a", "n", "c", "y">>,
      <<"p", "o", "p", "u", "l", "a", "r", "i", "t", "y">>,
      <<"p", "u", "b", "l", "i", "s", "h", "e", "d", "A", "t">> }

\* a query parameter is absent or a string
Absent == [given |-> FALSE]
Given(s) == [given |-> TRUE, s |-> s]

\* destructuring default: applies only to an absent parameter
Default(p, d) == IF p.given THEN p.s ELSE d

\* JS truthiness of a query parameter: undefined and "" are falsy
Truthy(p) == p.given /\ p.s # <<>>

RECURSIVE TrimStart(_)
TrimStart(s) ==
    IF s # <<>> /\ Head(s) = " " THEN TrimStart(Tail(s)) ELSE s

RECURSIVE TrimEnd(_)
TrimEnd(s) ==
    IF s # <<>> /\ s[Len(s)] = " "
    THEN TrimEnd(SubSeq(s, 1, Len(s) - 1)) ELSE s

\* String.prototype.trim
Trim(s) == TrimEnd(TrimStart(s))

\* String.prototype.substring(0, n)
Substring0(s, n) == SubSeq(s, 1, IF Len(s) < n THEN Len(s) ELSE n)

Digits == <<"0", "1", "2", "3", "4", "5", "6", "7", "8", "9">>
IsDigit(c) == \E i \in 1..10 : Digits[i] = c
DigitVal(c) == (CHOOSE i \in 1..10 : Digits[i] = c) - 1

\* JS numbers: an integer or NaN
NaN == [nan |-> TRUE]
Num(n) == [nan |-> FALSE, n |-> n]

RECURSIVE DigitPrefix(_, _)
\* value of the leading run of decimal digits of s, acc so far
DigitPrefix(s, acc) ==
    IF s # <<>> /\ IsDigit(Head(s))
    THEN DigitPrefix(Tail(s), 10 * acc + DigitVal(Head(s)))
    ELSE acc

\* parseInt(string), radix 10: leading whitespace is skipped, an optional
\* sign is read, then the leading digits; no digit gives NaN
parseInt(s) ==
    LET t == TrimStart(s)
        neg == t # <<>> /\ Head(t) = "-"
        u == IF t # <<>> /\ Head(t) \in {"-", "+"} THEN Tail(t) ELSE t
    IN  IF u = <<>> \/ ~IsDigit(Head(u)) THEN NaN
        ELSE Num(IF neg THEN 0 - DigitPrefix(u, 0) ELSE DigitPrefix(u, 0))

\* Math.min / Math.max: NaN if either argument is NaN
MathMin(a, b) ==
    IF a.nan \/ b.nan THEN NaN ELSE IF a.n < b.n THEN a ELSE b

MathMax(a, b) ==
    IF a.nan \/ b.nan THEN NaN ELSE IF a.n > b.n THEN a ELSE b

RECURSIVE NatToStr(_)
NatToStr(n) ==
    IF n < 10 THEN <<Digits[n + 1]>>
    ELSE NatToStr(n \div 10) \o <<Digits[(n % 10) + 1]>>

\* String(number), as a template literal converts it
NumToStr(v) ==
    IF v.nan THEN S_NaN
    ELSE IF v.n < 0 THEN <<"-">> \o NatToStr(0 - v.n)
    ELSE NatToStr(v.n)

\* encodeURIComponent on one character of the alphabet: letters, digits and
\* - _ . ! ~ * ' ( ) pass through, the space and the percent sign are escaped
EncodeChar(c) ==
    IF c = " " THEN <<"%", "2", "0">>
    ELSE IF c = "%" THEN <<"%", "2", "5">>
    ELSE <<c>>

RECURSIVE encodeURIComponent(_)
encodeURIComponent(s) ==
    IF s = <<>> THEN <<>>
    ELSE EncodeChar(Head(s)) \o encodeURIComponent(Tail(s))

RECURSIVE Join(_)
\* the template literal `a_b_c...`
Join(parts) ==
    IF Len(parts) = 1 THEN parts[1]
    ELSE parts[1] \o <<"_">> \o Join(Tail(parts))

(***************************************************************************)
(* JS Map primitives on the insertion-ordered sequence                     *)
(***************************************************************************)
RECURSIVE IndexOf(_, _)
\* position of key in the map, 0 when absent
IndexOf(m, k) ==
    IF m = <<>> THEN 0
    ELSE IF m[Len(m)].key = k THEN Len(m)
    ELSE IndexOf(SubSeq(m, 1, Len(m) - 1), k)

MapHas(m, k) == IndexOf(m, k) # 0

MapKeys(m) == {m[i].key : i \in 1..Len(m)}

\* Map.prototype.delete
MapDelete(m, k) ==
    LET i == IndexOf(m, k)
    IN  IF i = 0 THEN m
        ELSE SubSeq(m, 1, i - 1) \o SubSeq(m, i + 1, Len(m))

\* Map.prototype.set: an existing key keeps its position, a new key is appended
MapSet(m, k, d, e) ==
    LET i == IndexOf(m, k)
        ent == [key |-> k, data |-> d, expiry |-> e]
    IN  IF i = 0 THEN Append(m, ent)
        ELSE [m EXCEPT ![i] = ent]

(***************************************************************************)
(* Cache helper functions, newsRoutes.js:13-46                             *)
(***************************************************************************)
\* getFromCache treating the instant of expiry as expired
getFromCache_AtExpiry(m, k, t) ==
    LET i == IndexOf(m, k)
    IN  IF i = 0 THEN [hit |-> FALSE, store |-> m]
        ELSE IF t >= m[i].expiry
             THEN [hit |-> FALSE, store |-> MapDelete(m, k)]
             ELSE [hit |-> TRUE, data |-> m[i].data, store |-> m]

\* getFromCache: the returned value and the store it leaves
getFromCache(m, k, t) ==
    LET i == IndexOf(m, k)
    IN  IF i = 0 THEN [hit |-> FALSE, store |-> m]
        ELSE IF t > m[i].expiry
             THEN [hit |-> FALSE, store |-> MapDelete(m, k)]
             ELSE [hit |-> TRUE, data |-> m[i].data, store |-> m]

\* an eviction step that drops the newest entry
EvictIfOver_Newest(m) ==
    IF Len(m) > CACHE_LIMIT THEN MapDelete(m, m[Len(m)].key) ELSE m

\* the eviction step of setToCache
EvictIfOver(m) ==
    IF Len(m) > CACHE_LIMIT THEN MapDelete(m, m[1].key) ELSE m

\* setToCache ignoring the ttl it is given
setToCache_DefaultTtl(m, k, d, ttl, t) ==
    MapSet(EvictIfOver(m), k, d, t + CACHE_TTL)

\* setToCache forgetting to add the ttl
setToCache_ExpiryNow(m, k, d, ttl, t) ==
    MapSet(EvictIfOver(m), k, d, t)

setToCache(m, k, d, ttl, t) ==
    MapSet(EvictIfOver(m), k, d, t + ttl)

\* a sweep deleting every entry
clearExpiredCache_All(m, t) == <<>>

RECURSIVE clearExpiredCache_AtExpiry(_, _)
\* a sweep treating the instant of expiry as expired
clearExpiredCache_AtExpiry(m, t) ==
    IF m = <<>> THEN <<>>
    ELSE IF t >= Head(m).expiry
         THEN clearExpiredCache_AtExpiry(Tail(m), t)
         ELSE <<Head(m)>> \o clearExpiredCache_AtExpiry(Tail(m), t)

RECURSIVE clearExpiredCache(_, _)
clearExpiredCache(m, t) ==
    IF m = <<>> THEN <<>>
    ELSE IF t > Head(m).expiry
         THEN clearExpiredCache(Tail(m), t)
         ELSE <<Head(m)>> \o clearExpiredCache(Tail(m), t)

(***************************************************************************)
(* Cache-level specification: the four store operations and the clock.     *)
(* lastOp records the call that produced the current state.                *)
(***************************************************************************)
NoWatch == [on |-> FALSE]

\* the rate limiter before the first request: no hit counted, no window open
NoLimiter == [hits |-> 0, resetTime |-> -1, start |-> -1, admitted |-> 0]

\* no lookup counted yet: hits and misses are the counters NodeCache keeps,
\* lookups counts the cache lookups the handlers performed
NoStats == [hits |-> 0, misses |-> 0, lookups |-> 0]

\* consultations.json does not exist
Missing == [exists |-> FALSE]

\* no consultation request has been received and none is in progress
NoBookings == [received |-> 0, active |-> <<>>]

\* no request is suspended, no booking is in progress, nothing is stored
Idle ==
    /\ inflight = <<>>
    /\ consultationsFile = Missing
    /\ uploads = {}
    /\ bookings = NoBookings

NoData == [status |-> "none"]

\* no request has been answered yet
NoResponse ==
    [route |-> "none", key |-> <<>>, status |-> 0, cached |-> FALSE,
     data |-> NoData, since |-> -1, body |-> [status |-> 0]]

ExpiryOf(m, k) == IF MapHas(m, k) THEN m[IndexOf(m, k)].expiry ELSE -1

Init ==
    /\ newsCache = <<>>
    /\ now = 0
    /\ lastOp = [op |-> "init"]
    /\ watch = NoWatch
    /\ variant = "serverless"
    /\ req = <<>>
    /\ out = <<>>
    /\ done = NoResponse
    /\ env = "production"
    /\ limiter = NoLimiter
    /\ NEWS_API_KEY = TRUE
    /\ stats = NoStats
    /\ Idle

SetToCache(k, d, ttl) ==
    /\ newsCache' = setToCache(newsCache, k, d, ttl, now)
    /\ lastOp' = [op |-> "set", key |-> k, data |-> d, ttl |-> ttl]
    /\ UNCHANGED <<now, watch, keyVars, routeVars, envVars>>

GetFromCache(k) ==
    LET r == getFromCache(newsCache, k, now)
    IN  /\ newsCache' = r.store
        /\ lastOp' = [op |-> "get", key |-> k, hit |-> r.hit,
                      data |-> IF r.hit THEN r.data ELSE "null",
                      had |-> MapHas(newsCache, k),
                      exp |-> ExpiryOf(newsCache, k)]
        /\ UNCHANGED <<now, watch, keyVars, routeVars, envVars>>

ClearExpiredCache ==
    /\ newsCache' = clearExpiredCache(newsCache, now)
    /\ lastOp' = [op |-> "sweep",
                  removed |-> Len(newsCache) - Len(newsCache')]
    /\ UNCHANGED <<now, watch, keyVars, routeVars, envVars>>

\* newsCache.clear(), newsRoutes.js:477
ClearCache ==
    /\ newsCache' = <<>>
    /\ lastOp' = [op |-> "clear", cleared |-> Len(newsCache)]
    /\ UNCHANGED <<now, watch, keyVars, routeVars, envVars>>

Tick ==
    /\ now < MaxTime
    /\ now' = now + 1
    /\ lastOp' = [op |-> "tick"]
    /\ UNCHANGED <<newsCache, watch, keyVars, routeVars, envVars>>

Next ==
    \/ \E k \in Keys, d \in Datas, ttl \in Ttls : SetToCache(k, d, ttl)
    \/ \E k \in Keys : GetFromCache(k)
    \/ ClearExpiredCache
    \/ ClearCache
    \/ Tick

Spec == Init /\ [][Next]_vars

(***************************************************************************)
(* Observed-set specification: the same store operations; watch follows    *)
(* one setToCache call chosen for observation, counting the later          *)
(* setToCache calls for other keys, until its key is set again or the      *)
(* store is cleared.  lastOp keeps only the outcome of a getFromCache of   *)
(* the observed key.  The calls that are not observed write one filler     *)
(* value: the store operations never read the data they hold.              *)
(***************************************************************************)
\* saturating counter of the calls seen since the observed set
Bump(n) == IF n < CACHE_LIMIT THEN n + 1 ELSE n

Other == [op |-> "other"]

ObservedSet(k, d, ttl) ==
    /\ ~watch.on
    /\ newsCache' = setToCache(newsCache, k, d, ttl, now)
    /\ watch' = [on |-> TRUE, key |-> k, v |-> d, exp |-> now + ttl,
                 wasNew |-> ~MapHas(newsCache, k), sets |-> 0, news |-> 0]
    /\ lastOp' = Other
    /\ UNCHANGED <<now, keyVars, routeVars, envVars>>

LaterSet(k, d, ttl) ==
    /\ newsCache' = setToCache(newsCache, k, d, ttl, now)
    /\ watch' = IF watch.on /\ watch.key # k
                THEN [watch EXCEPT
                        !.sets = Bump(@),
                        !.news = IF MapHas(newsCache, k) THEN @ ELSE Bump(@)]
                ELSE NoWatch
    /\ lastOp' = Other
    /\ UNCHANGED <<now, keyVars, routeVars, envVars>>

LaterGet(k) ==
    LET r == getFromCache(newsCache, k, now)
    IN  /\ newsCache' = r.store
        /\ lastOp' = IF watch.on /\ watch.key = k
                     THEN [op |-> "get", key |-> k, hit |-> r.hit,
                           data |-> IF r.hit THEN r.data ELSE "null"]
                     ELSE Other
        /\ UNCHANGED <<now, watch, keyVars, routeVars, envVars>>

LaterSweep ==
    /\ newsCache' = clearExpiredCache(newsCache, now)
    /\ lastOp' = Other
    /\ UNCHANGED <<now, watch, keyVars, routeVars, envVars>>

LaterClear ==
    /\ newsCache' = <<>>
    /\ watch' = NoWatch
    /\ lastOp' = Other
    /\ UNCHANGED <<now, keyVars, routeVars, envVars>>

LaterTick ==
    /\ now < MaxTime
    /\ now' = now + 1
    /\ lastOp' = Other
    /\ UNCHANGED <<newsCache, watch, keyVars, routeVars, envVars>>

NextWatch ==
    \/ \E k \in Keys, d \in Datas, ttl \in Ttls : ObservedSet(k, d, ttl)
    \/ \E k \in Keys, d \in FillerDatas, ttl \in Ttls : LaterSet(k, d, ttl)
    \/ \E k \in Keys : LaterGet(k)
    \/ LaterSweep
    \/ LaterClear
    \/ LaterTick

SpecWatch == Init /\ [][NextWatch]_vars

(***************************************************************************)
(* Cache-key construction and the parameters sent upstream                 *)
(***************************************************************************)
\* headlines, newsRoutes.js:93-108 (same in unnamed/part_000:36-51)
\* a validation that lets every category through
headlinesValid_AnyCategory(q) == TRUE

headlinesValid(q) == Default(q.category, S_general) \in ValidCategories

headlinesLimitedPageSize(q) ==
    MathMin(parseInt(Default(q.pageSize, S_20)), Num(PAGE_SIZE_MAX_SERVERLESS))

headlinesLimitedPage(q) ==
    MathMax(Num(1),
            MathMin(parseInt(Default(q.page, S_1)), Num(HEADLINES_PAGE_MAX)))

headlinesKeyServerless(q) ==
    Join(<<S_headlines, Default(q.category, S_general),
           Default(q.country, S_us),
           NumToStr(headlinesLimitedPage(q)),
           NumToStr(headlinesLimitedPageSize(q))>>)

headlinesParamsServerless(q) ==
    [category |-> Default(q.category, S_general),
     country |-> Default(q.country, S_us),
     page |-> headlinesLimitedPage(q),
     pageSize |-> headlinesLimitedPageSize(q)]

headlinesKeyAlwaysOn(q) ==
    Join(<<S_headlines, Default(q.category, S_general),
           Default(q.country, S_us),
           Default(q.page, S_1), Default(q.pageSize, S_20)>>)

headlinesParamsAlwaysOn(q) ==
    [category |-> Default(q.category, S_general),
     country |-> Default(q.country, S_us),
     page |-> parseInt(Default(q.page, S_1)),
     pageSize |-> MathMin(parseInt(Default(q.pageSize, S_20)),
                          Num(PAGE_SIZE_MAX_ALWAYSON))]

\* search, newsRoutes.js:226-250 (same in unnamed/part_000:145-169)
searchValid(q) ==
    /\ Truthy(q.q)
    /\ Len(Trim(q.q.s)) >= QUERY_MIN_LEN
    /\ Default(q.sortBy, S_publishedAt) \in ValidSortBy

searchLimitedPageSize(q) ==
    MathMin(parseInt(Default(q.pageSize, S_20)), Num(PAGE_SIZE_MAX_SERVERLESS))

searchLimitedPage(q) ==
    MathMax(Num(1),
            MathMin(parseInt(Default(q.page, S_1)), Num(SEARCH_PAGE_MAX)))

sanitizedQuery(q) == Substring0(Trim(q.q.s), QUERY_MAX_LEN)

searchKeyServerless(q) ==
    Join(<<S_search, encodeURIComponent(sanitizedQuery(q)),
           NumToStr(searchLimitedPage(q)),
           NumToStr(searchLimitedPageSize(q)),
           Default(q.sortBy, S_publishedAt),
           Default(q.language, S_en)>>)

searchParamsServerless(q) ==
    [q |-> sanitizedQuery(q),
     page |-> searchLimitedPage(q),
     pageSize |-> searchLimitedPageSize(q),
     sortBy |-> Default(q.sortBy, S_publishedAt),
     language |-> Default(q.language, S_en)]

searchKeyAlwaysOn(q) ==
    Join(<<S_search, encodeURIComponent(q.q.s),
           Default(q.page, S_1), Default(q.pageSize, S_20),
           Default(q.sortBy, S_publishedAt),
           Default(q.language, S_en)>>)

searchParamsAlwaysOn(q) ==
    [q |-> Trim(q.q.s),
     page |-> parseInt(Default(q.page, S_1)),
     pageSize |-> MathMin(parseInt(Default(q.pageSize, S_20)),
                          Num(PAGE_SIZE_MAX_ALWAYSON)),
     sortBy |-> Default(q.sortBy, S_publishedAt),
     language |-> Default(q.language, S_en)]

\* sources, newsRoutes.js:357-388 (same in unnamed/part_000:257-288)
sourcesKey(q) ==
    Join(<<S_sources,
           IF Truthy(q.category) THEN q.category.s ELSE S_all,
           Default(q.language, S_en),
           Default(q.country, S_us)>>)

sourcesParams(q) ==
    [language |-> Default(q.language, S_en),
     country |-> Default(q.country, S_us),
     category |-> IF Truthy(q.category) THEN q.category ELSE Absent]

(***************************************************************************)
(* Key-building specification: two requests of one route in one            *)
(* deployment variant; each handler validates its request and derives the  *)
(* cache key and the upstream parameters.                                  *)
(***************************************************************************)
Variants == {"serverless", "alwaysOn"}

HeadlinesQueries ==
    [category : {Absent, Given(S_general), Given(<<"x">>)},
     country : {Absent, Given(<<"u", "_", "s">>)},
     page : {Absent, Given(<<"5">>), Given(<<"0", "5">>), Given(<<"x">>)},
     pageSize : {Absent, Given(<<"5">>), Given(<<"0", "5">>)}]

SearchQueries ==
    [q : {Absent, Given(<<"a">>), Given(<<"a", "b">>),
          Given(<<" ", "a", "b">>),
          Given(<<"a", "b", "_", "1", "_", "2", "0", "_", "p", "u", "b", "l", "i", "s", "h", "e", "d", "A", "t", "_", "e", "n">>)},
     page : {Absent, Given(<<"2">>), Given(<<"0", "2">>)},
     pageSize : {Absent},
     sortBy : {Absent, Given(<<"x">>)},
     language : {Absent, Given(<<"e", "n", "_", "1", "_", "2", "0", "_", "p", "u", "b", "l", "i", "s", "h", "e", "d", "A", "t", "_", "e", "n">>)}]

SourcesQueries ==
    [category : {Absent, Given(<<>>), Given(S_all), Given(<<"a">>),
                 Given(<<"a", "_", "b">>)},
     language : {Absent, Given(<<"c">>), Given(<<"b", "_", "c">>)},
     country : {Absent, Given(<<"c">>)}]

QueriesOf(route) ==
    CASE route = "headlines" -> HeadlinesQueries
      [] route = "search" -> SearchQueries
      [] route = "sources" -> SourcesQueries

ProxyRoutes == {"headlines", "search", "sources"}

Pending == [st |-> "pending"]
Rejected == [st |-> "rejected"]
Keyed(k, ps) == [st |-> "keyed", key |-> k, params |-> ps]

InitKey ==
    /\ newsCache = <<>>
    /\ now = 0
    /\ lastOp = [op |-> "init"]
    /\ watch = NoWatch
    /\ variant \in Variants
    /\ \E r \in ProxyRoutes :
         req \in {<<[route |-> r, query |-> a], [route |-> r, query |-> b]>> :
                    a \in QueriesOf(r), b \in QueriesOf(r)}
    /\ out = <<Pending, Pending>>
    /\ done = NoResponse
    /\ env = "production"
    /\ limiter = NoLimiter
    /\ NEWS_API_KEY = TRUE
    /\ stats = NoStats
    /\ Idle

HeadlinesKey(i) ==
    /\ req[i].route = "headlines"
    /\ out[i] = Pending
    /\ LET q == req[i].query
       IN  out' = [out EXCEPT ![i] =
                     IF ~headlinesValid(q) THEN Rejected
                     ELSE IF variant = "serverless"
                     THEN Keyed(headlinesKeyServerless(q),
                                headlinesParamsServerless(q))
                     ELSE Keyed(headlinesKeyAlwaysOn(q),
                                headlinesParamsAlwaysOn(q))]
    /\ UNCHANGED <<newsCache, now, lastOp, watch, variant, req, done, envVars>>

SearchKey(i) ==
    /\ req[i].route = "search"
    /\ out[i] = Pending
    /\ LET q == req[i].query
       IN  out' = [out EXCEPT ![i] =
                     IF ~searchValid(q) THEN Rejected
                     ELSE IF variant = "serverless"
                     THEN Keyed(searchKeyServerless(q),
                                searchParamsServerless(q))
                     ELSE Keyed(searchKeyAlwaysOn(q),
                                searchParamsAlwaysOn(q))]
    /\ UNCHANGED <<newsCache, now, lastOp, watch, variant, req, done, envVars>>

SourcesKey(i) ==
    /\ req[i].route = "sources"
    /\ out[i] = Pending
    /\ LET q == req[i].query
       IN  out' = [out EXCEPT ![i] =
                     Keyed(sourcesKey(q), sourcesParams(q))]
    /\ UNCHANGED <<newsCache, now, lastOp, watch, variant, req, done, envVars>>

NextKey ==
    \/ \E i \in 1..2 : HeadlinesKey(i)
    \/ \E i \in 1..2 : SearchKey(i)
    \/ \E i \in 1..2 : SourcesKey(i)

SpecKey == InitKey /\ [][NextKey]_vars

(***************************************************************************)
(* Route handlers of the serverless variant, newsRoutes.js:86-496.         *)
(* Requests are handled one after the other; the upstream call of a        *)
(* handler takes dt ticks.  done is the response to the latest request,    *)
(* lastOp what the handler did: whether it looked the key up, whether the  *)
(* store then held an entry past its expiry, the upstream calls it made    *)
(* and the upstream outcome.                                               *)
(***************************************************************************)
Good1 == [title |-> "t1", description |-> "d", url |-> "u", urlToImage |-> "i"]
Good2 == [title |-> "t2", description |-> "d", url |-> "u", urlToImage |-> "i"]
Removed ==
    [title |-> "[Removed]", description |-> "d", url |-> "u", urlToImage |-> "i"]
NoUrl == [title |-> "t3", description |-> "d", url |-> "", urlToImage |-> "i"]

\* what the upstream call can come to
ArticlePayloads ==
    { [status |-> "ok", totalResults |-> Num(1), articles |-> <<Good1>>],
      [status |-> "ok", totalResults |-> Num(3),
       articles |-> <<Removed, Good2, NoUrl>>] }

SourcesPayloads ==
    { [status |-> "ok", sources |-> <<"s1">>],
      [status |-> "ok", sources |-> <<"s2">>] }

Failures ==
    { [kind |-> "timeout"], [kind |-> "http", status |-> 429],
      [kind |-> "http", status |-> 401], [kind |-> "http", status |-> 500],
      [kind |-> "body", data |-> [status |-> "error"]] }

ArticleOutcomes ==
    {[kind |-> "body", data |-> p] : p \in ArticlePayloads} \cup Failures

SourcesOutcomes ==
    {[kind |-> "body", data |-> p] : p \in SourcesPayloads} \cup Failures

\* the article filter, newsRoutes.js:152-158 and :294-300
validArticle(a) ==
    /\ a.title # ""
    /\ a.title # "[Removed]"
    /\ a.description # ""
    /\ a.urlToImage # ""
    /\ a.url # ""

\* the article filter of the always-on variant, part_000:86-91 and :205-210
validArticleAlwaysOn(a) ==
    /\ a.title # ""
    /\ a.title # "[Removed]"
    /\ a.description # ""
    /\ a.urlToImage # ""

\* a property the upstream body does not carry reads as undefined
Undefined == [undefined |-> TRUE]

\* ToNumber, as Math.min applies it to its arguments
ToNumber(v) == IF v = Undefined THEN NaN ELSE v

\* responseData of the headlines handler, newsRoutes.js:160-164
headlinesResponseData(data) ==
    LET validArticles == SelectSeq(data.articles, validArticle)
    IN  [data EXCEPT !.articles = validArticles,
                     !.totalResults = Num(Len(validArticles))]

\* responseData of the search handler, newsRoutes.js:302-306
searchResponseData(data) ==
    LET validArticles == SelectSeq(data.articles, validArticle)
    IN  [data EXCEPT !.articles = validArticles,
                     !.totalResults =
                        MathMin(ToNumber(data.totalResults),
                                Num(Len(validArticles)))]

\* responseData of the always-on headlines handler, part_000:93-97
headlinesResponseDataAlwaysOn(data) ==
    LET validArticles == SelectSeq(data.articles, validArticleAlwaysOn)
    IN  [data EXCEPT !.articles = validArticles,
                     !.totalResults = Num(Len(validArticles))]

\* responseData of the always-on search handler, part_000:212-216
searchResponseDataAlwaysOn(data) ==
    LET validArticles == SelectSeq(data.articles, validArticleAlwaysOn)
    IN  [data EXCEPT !.articles = validArticles,
                     !.totalResults =
                        MathMin(ToNumber(data.totalResults),
                                Num(Len(validArticles)))]

\* status of the catch block of the headlines and the search handler,
\* newsRoutes.js:182-215 and :324-349
articleCatchStatus(o) ==
    IF o.kind = "timeout" THEN 408
    ELSE IF o.kind = "http" /\ o.status = 429 THEN 429
    ELSE 500

\* a catch block handing the upstream status on to the caller
sourcesCatchStatus_PassThrough(o) == IF o.kind = "http" THEN o.status ELSE 500

\* status of the catch block of the sources handler, newsRoutes.js:416-425
sourcesCatchStatus(o) == 500

\* error.message of what the handler's try block threw: the TypeError of
\* reading a property of a missing array of an ok body, the axios error of
\* a timeout or of a non-2xx status, or the Error thrown for a body whose
\* status is not 'ok' (the bodies here carry no message of their own)
ErrorMessage(o) ==
    IF o.kind = "body" /\ o.data.status = "ok"
    THEN "Cannot read properties of undefined"
    ELSE IF o.kind = "timeout" THEN "timeout exceeded"
    ELSE IF o.kind = "http" /\ o.status = 429
    THEN "Request failed with status code 429"
    ELSE IF o.kind = "http" /\ o.status = 401
    THEN "Request failed with status code 401"
    ELSE IF o.kind = "http" THEN "Request failed with status code 500"
    ELSE "NewsAPI returned error"

\* a property the response body does not carry
None == "none"

\* the last res.status(500).json of a serverless catch block: error is the
\* thrown message only in development
Fallback500(message, o, e) ==
    [status |-> 500, message |-> message, retryAfter |-> None,
     error |-> IF e = "development" THEN ErrorMessage(o)
               ELSE "Service temporarily unavailable"]

\* the last res.status(500).json of an always-on catch block: error is
\* undefined, and so left out of the body, unless in development
Fallback500AlwaysOn(message, o, e) ==
    [status |-> 500, message |-> message, retryAfter |-> None,
     error |-> IF e = "development" THEN ErrorMessage(o) ELSE None]

Timeout408(message) ==
    [status |-> 408, message |-> message, retryAfter |-> "30 seconds",
     error |-> None]

RateLimited429 ==
    [status |-> 429, message |-> "NewsAPI rate limit exceeded",
     retryAfter |-> "1 hour", error |-> None]

Unavailable500 ==
    [status |-> 500, message |-> "News service temporarily unavailable",
     retryAfter |-> None, error |-> None]

\* catch block of the headlines handler, newsRoutes.js:182-215
headlinesCatch(o, e) ==
    IF articleCatchStatus(o) = 408
    THEN Timeout408("Request timeout - please try again")
    ELSE IF articleCatchStatus(o) = 429 THEN RateLimited429
    ELSE IF o.kind = "http" /\ o.status = 401 THEN Unavailable500
    ELSE Fallback500("Failed to fetch news headlines", o, e)

\* catch block of the search handler, newsRoutes.js:324-349
searchCatch(o, e) ==
    IF articleCatchStatus(o) = 408
    THEN Timeout408("Search timeout - please try again")
    ELSE IF articleCatchStatus(o) = 429 THEN RateLimited429
    ELSE Fallback500("Failed to search news", o, e)

\* catch block of the sources handler, newsRoutes.js:416-425
sourcesCatch(o, e) ==
    [Fallback500("Failed to fetch news sources", o, e)
       EXCEPT !.status = sourcesCatchStatus(o)]

\* catch block of the always-on headlines handler, part_000:114-137
headlinesCatchAlwaysOn(o, e) ==
    IF o.kind = "http" /\ o.status = 429 THEN RateLimited429
    ELSE IF o.kind = "http" /\ o.status = 401 THEN Unavailable500
    ELSE Fallback500AlwaysOn("Failed to fetch news headlines", o, e)

\* catch block of the always-on search handler, part_000:233-249
searchCatchAlwaysOn(o, e) ==
    IF o.kind = "http" /\ o.status = 429 THEN RateLimited429
    ELSE Fallback500AlwaysOn("Failed to search news", o, e)

\* catch block of the always-on sources handler, part_000:312-320
sourcesCatchAlwaysOn(o, e) ==
    Fallback500AlwaysOn("Failed to fetch news sources", o, e)

HasExpired(m, t) == \E i \in 1..Len(m) : t > m[i].expiry

\* the body of a 200 response carries none of the error properties
NoBody ==
    [status |-> 200, message |-> None, retryAfter |-> None, error |-> None]

\* a response of a catch block or of a validation: c is its status and body
ErrorResponse(route, key, c) ==
    [route |-> route, key |-> key, status |-> c.status, cached |-> FALSE,
     data |-> NoData, since |-> -1, body |-> c]

\* response.data.status === 'ok'
BodyOk(o) == o.kind = "body" /\ o.data.status = "ok"

\* NodeCache.get of the always-on variant: an entry past its expiry is
\* deleted and reads as undefined
nodeCacheGet(m, k, t) ==
    LET i == IndexOf(m, k)
    IN  IF i = 0 THEN [hit |-> FALSE, store |-> m]
        ELSE IF m[i].expiry < t
             THEN [hit |-> FALSE, store |-> MapDelete(m, k)]
             ELSE [hit |-> TRUE, data |-> m[i].data, store |-> m]

\* NodeCache.set of the always-on variant: no limit on the number of keys
nodeCacheSet(m, k, d, ttl, t) == MapSet(m, k, d, t + ttl)

\* the lookup of the deployment variant
cacheGet(m, k, t) ==
    IF variant = "serverless" THEN getFromCache(m, k, t)
    ELSE nodeCacheGet(m, k, t)

\* the insertion of the deployment variant
cacheSet(m, k, d, ttl, t) ==
    IF variant = "serverless" THEN setToCache(m, k, d, ttl, t)
    ELSE nodeCacheSet(m, k, d, ttl, t)

\* response.data.articles.filter(...) of the headlines and the search
\* handler throws a TypeError when the ok body carries no articles,
\* newsRoutes.js:152 and :294, part_000:86 and :205
filterThrows(route, o) ==
    /\ route \in {"headlines", "search"}
    /\ BodyOk(o)
    /\ "articles" \notin DOMAIN o.data

\* response.data.sources.length in the console.log that follows the 200
\* response of the sources handler throws a TypeError when the ok body
\* carries no sources, newsRoutes.js:411, part_000:307
logThrows(route, o) ==
    /\ route = "sources"
    /\ BodyOk(o)
    /\ "sources" \notin DOMAIN o.data

\* the part of a proxy handler from the cache lookup on: a hit answers from
\* the store; a miss calls upstream, and an ok body is stored under key as
\* okData and answered, anything else is answered by the catch block with
\* err.  An exception thrown after the 200 response reaches the catch
\* block too: its res.status(500).json is a second response, on which
\* Express throws, and that exception leaves the handler
LookupAndFetch(route, q, store, key, o, dt, ttl, okData, err) ==
    LET r == cacheGet(store, key, now)
    IN  IF r.hit
        THEN /\ newsCache' = r.store
             /\ now' = now
             /\ done' = [route |-> route, key |-> key, status |-> 200,
                         cached |-> TRUE, data |-> r.data,
                         since |-> IF done.status = 200 /\ done.key = key
                                   THEN done.since ELSE -1,
                         body |-> NoBody]
             /\ lastOp' = [op |-> route, query |-> q, looked |-> TRUE,
                           stale |-> HasExpired(store, now), calls |-> 0,
                           upstream |-> [kind |-> "none"],
                           responses |-> 1, escaped |-> FALSE]
        ELSE /\ now + dt <= MaxTime
             /\ now' = now + dt
             /\ lastOp' = [op |-> route, query |-> q, looked |-> TRUE,
                           stale |-> HasExpired(store, now), calls |-> 1,
                           upstream |-> o,
                           responses |-> IF logThrows(route, o) THEN 2 ELSE 1,
                           escaped |-> logThrows(route, o)]
             /\ IF BodyOk(o) /\ ~filterThrows(route, o)
                THEN /\ newsCache' = cacheSet(r.store, key, okData, ttl, now')
                     /\ done' = [route |-> route, key |-> key, status |-> 200,
                                 cached |-> FALSE, data |-> okData,
                                 since |-> now', body |-> NoBody]
                ELSE /\ newsCache' = r.store
                     /\ done' = ErrorResponse(route, key, err)

\* the body of a validation failure
Invalid400(message) ==
    [status |-> 400, message |-> message, retryAfter |-> None,
     error |-> None]

\* a request answered 400 by the validation of its handler; store is the
\* store the handler has left by then, swept the number of entries it has
\* deleted
Reject(route, q, store, message) ==
    /\ newsCache' = store
    /\ now' = now
    /\ done' = ErrorResponse(route, <<>>, Invalid400(message))
    /\ lastOp' = [op |-> route, query |-> q, looked |-> FALSE,
                  stale |-> FALSE, calls |-> 0,
                  upstream |-> [kind |-> "none"],
                  responses |-> 1, escaped |-> FALSE,
                  swept |-> Len(newsCache) - Len(store)]

\* message of the validation that rejects a search request,
\* newsRoutes.js:235-249
searchInvalidMessage(q) ==
    IF ~Truthy(q.q)
    THEN "Search query must be at least 2 characters long"
    ELSE IF Len(Trim(q.q.s)) < QUERY_MIN_LEN
    THEN "Search query must be at least 2 characters long"
    ELSE "Invalid sortBy parameter"

\* router.get('/headlines'), newsRoutes.js:86-216
HeadlinesHandler(q, o, dt) ==
    /\ variant = "serverless"
    /\ LET swept == clearExpiredCache(newsCache, now)
       IN  IF ~headlinesValid(q)
           THEN Reject("headlines", q, swept, "Invalid category")
           ELSE LookupAndFetch("headlines", q, swept,
                               headlinesKeyServerless(q), o, dt, CACHE_TTL,
                               IF BodyOk(o) THEN headlinesResponseData(o.data)
                               ELSE NoData,
                               headlinesCatch(o, env))

\* a headlines request reaching the serverless handler
Headlines(q, o, dt) ==
    /\ HeadlinesHandler(q, o, dt)
    /\ UNCHANGED <<watch, keyVars, envVars>>

\* router.get('/search'), newsRoutes.js:219-350
SearchHandler(q, o, dt) ==
    /\ variant = "serverless"
    /\ LET swept == clearExpiredCache(newsCache, now)
       IN  IF ~searchValid(q)
           THEN Reject("search", q, swept, searchInvalidMessage(q))
           ELSE LookupAndFetch("search", q, swept, searchKeyServerless(q),
                               o, dt, CACHE_TTL,
                               IF BodyOk(o) THEN searchResponseData(o.data)
                               ELSE NoData,
                               searchCatch(o, env))

\* a search request reaching the serverless handler
Search(q, o, dt) ==
    /\ SearchHandler(q, o, dt)
    /\ UNCHANGED <<watch, keyVars, envVars>>

\* router.get('/sources'), newsRoutes.js:353-426
SourcesHandler(q, o, dt) ==
    /\ variant = "serverless"
    /\ LookupAndFetch("sources", q, newsCache, sourcesKey(q), o, dt,
                      SOURCES_TTL,
                      IF BodyOk(o) THEN o.data ELSE NoData,
                      sourcesCatch(o, env))

\* a sources request reaching the serverless handler
Sources(q, o, dt) ==
    /\ SourcesHandler(q, o, dt)
    /\ UNCHANGED <<watch, keyVars, envVars>>

\* what a health or clear-cache request leaves in lastOp: the route, and
\* the clearedKeys of the clear-cache response it follows, if it follows one
AdminOp(route) ==
    [op |-> route,
     cleared |-> IF done.route = "clear-cache" /\ done.status = 200
                 THEN done.data.clearedKeys ELSE -1]

\* router.get('/health'), newsRoutes.js:429-471
HealthHandler ==
    /\ variant = "serverless"
    /\ newsCache' = clearExpiredCache(newsCache, now)
    /\ done' = [route |-> "health", key |-> <<>>, status |-> 200,
                cached |-> FALSE, data |-> [keys |-> Len(newsCache')],
                since |-> -1, body |-> NoBody]
    /\ lastOp' = AdminOp("health")
    /\ UNCHANGED now

\* a health request reaching the serverless handler
Health ==
    /\ HealthHandler
    /\ UNCHANGED <<watch, keyVars, envVars>>

\* newsCache.clear() leaving a newest entry behind
clearCache_KeepsNewest(m) ==
    [clearedKeys |-> Len(m),
     store |-> IF m = <<>> THEN <<>> ELSE <<m[Len(m)]>>]

\* cacheSize = newsCache.size; newsCache.clear(), newsRoutes.js:476-477
clearCache(m) == [clearedKeys |-> Len(m), store |-> <<>>]

\* router.post('/clear-cache'), newsRoutes.js:474-496
ClearCacheRouteHandler ==
    /\ variant = "serverless"
    /\ newsCache' = clearCache(newsCache).store
    /\ done' = [route |-> "clear-cache", key |-> <<>>, status |-> 200,
                cached |-> FALSE,
                data |-> [clearedKeys |-> clearCache(newsCache).clearedKeys],
                since |-> -1, body |-> NoBody]
    /\ lastOp' = AdminOp("clear-cache")
    /\ UNCHANGED now

\* a clear-cache request reaching the serverless handler
ClearCacheRoute ==
    /\ ClearCacheRouteHandler
    /\ UNCHANGED <<watch, keyVars, envVars>>

HQ(cat, page) ==
    [category |-> cat, country |-> Absent, page |-> page, pageSize |-> Absent]

SQ(q) ==
    [q |-> q, page |-> Absent, pageSize |-> Absent, sortBy |-> Absent,
     language |-> Absent]

RouteHeadlinesQueries ==
    {HQ(Absent, Absent), HQ(Absent, Given(<<"2">>)), HQ(Given(<<"x">>), Absent)}

RouteSearchQueries == {SQ(Given(<<"a", "b">>)), SQ(Given(<<"a">>))}

RouteSourcesQueries ==
    {[category |-> Absent, language |-> Absent, country |-> Absent]}

\* ticks an upstream call can take
Latencies == {0, 1}

NextRoute ==
    \/ \E q \in RouteHeadlinesQueries, o \in ArticleOutcomes, dt \in Latencies :
         Headlines(q, o, dt)
    \/ \E q \in RouteSearchQueries, o \in ArticleOutcomes, dt \in Latencies :
         Search(q, o, dt)
    \/ \E q \in RouteSourcesQueries, o \in SourcesOutcomes, dt \in Latencies :
         Sources(q, o, dt)
    \/ Health
    \/ ClearCacheRoute
    \/ Tick

SpecRoute == Init /\ [][NextRoute]_vars

(***************************************************************************)
(* Route handlers of the always-on variant, unnamed/part_000:32-368, and   *)
(* the proxy specification: the handlers of either deployment variant      *)
(* under either NODE_ENV, requests handled one after the other.  The       *)
(* always-on store is a NodeCache: it has no capacity limit, its get       *)
(* deletes an entry past its expiry, and a timer deletes such entries      *)
(* every check period.                                                     *)
(***************************************************************************)
\* router.get('/headlines'), part_000:32-138
HeadlinesAlwaysOnHandler(q, o, dt) ==
    /\ variant = "alwaysOn"
    /\ IF ~headlinesValid(q)
       THEN Reject("headlines", q, newsCache, "Invalid category")
       ELSE LookupAndFetch("headlines", q, newsCache,
                           headlinesKeyAlwaysOn(q), o, dt, CACHE_TTL,
                           IF BodyOk(o)
                           THEN headlinesResponseDataAlwaysOn(o.data)
                           ELSE NoData,
                           headlinesCatchAlwaysOn(o, env))

\* a headlines request reaching the always-on handler
HeadlinesAlwaysOn(q, o, dt) ==
    /\ HeadlinesAlwaysOnHandler(q, o, dt)
    /\ UNCHANGED <<watch, keyVars, envVars>>

\* router.get('/search'), part_000:141-250
SearchAlwaysOnHandler(q, o, dt) ==
    /\ variant = "alwaysOn"
    /\ IF ~searchValid(q)
       THEN Reject("search", q, newsCache, searchInvalidMessage(q))
       ELSE LookupAndFetch("search", q, newsCache, searchKeyAlwaysOn(q),
                           o, dt, CACHE_TTL,
                           IF BodyOk(o)
                           THEN searchResponseDataAlwaysOn(o.data)
                           ELSE NoData,
                           searchCatchAlwaysOn(o, env))

\* a search request reaching the always-on handler
SearchAlwaysOn(q, o, dt) ==
    /\ SearchAlwaysOnHandler(q, o, dt)
    /\ UNCHANGED <<watch, keyVars, envVars>>

\* router.get('/sources'), part_000:253-321
SourcesAlwaysOnHandler(q, o, dt) ==
    /\ variant = "alwaysOn"
    /\ LookupAndFetch("sources", q, newsCache, sourcesKey(q), o, dt,
                      SOURCES_TTL,
                      IF BodyOk(o) THEN o.data ELSE NoData,
                      sourcesCatchAlwaysOn(o, env))

\* a sources request reaching the always-on handler
SourcesAlwaysOn(q, o, dt) ==
    /\ SourcesAlwaysOnHandler(q, o, dt)
    /\ UNCHANGED <<watch, keyVars, envVars>>

\* router.get('/health'), part_000:324-344: getStats().keys counts the
\* entries the store holds, hits and misses are the counters of NodeCache
HealthAlwaysOnHandler ==
    /\ variant = "alwaysOn"
    /\ done' = [route |-> "health", key |-> <<>>, status |-> 200,
                cached |-> FALSE,
                data |-> [keys |-> Len(newsCache), hits |-> stats.hits,
                          misses |-> stats.misses],
                since |-> -1, body |-> NoBody]
    /\ lastOp' = AdminOp("health")
    /\ UNCHANGED <<newsCache, now>>

\* a health request reaching the always-on handler
HealthAlwaysOn ==
    /\ HealthAlwaysOnHandler
    /\ UNCHANGED <<watch, keyVars, envVars>>

\* cacheKeys = newsCache.keys(); newsCache.flushAll(), part_000:349-350
flushAll(m) == [clearedKeys |-> Len(m), store |-> <<>>]

\* router.post('/clear-cache'), part_000:347-368
ClearCacheAlwaysOnHandler ==
    /\ variant = "alwaysOn"
    /\ newsCache' = flushAll(newsCache).store
    /\ done' = [route |-> "clear-cache", key |-> <<>>, status |-> 200,
                cached |-> FALSE,
                data |-> [clearedKeys |-> flushAll(newsCache).clearedKeys],
                since |-> -1, body |-> NoBody]
    /\ lastOp' = AdminOp("clear-cache")
    /\ UNCHANGED now

\* a clear-cache request reaching the always-on handler
ClearCacheAlwaysOn ==
    /\ ClearCacheAlwaysOnHandler
    /\ UNCHANGED <<watch, keyVars, envVars>>

\* the timer of NodeCache({checkperiod: 60}), part_000:9: entries past
\* their expiry are deleted
CheckPeriod ==
    /\ variant = "alwaysOn"
    /\ newsCache' = clearExpiredCache(newsCache, now)
    /\ lastOp' = [op |-> "checkperiod"]
    /\ UNCHANGED <<now, watch, keyVars, routeVars, envVars>>

NodeEnvs == {"development", "production"}

InitProxy ==
    /\ newsCache = <<>>
    /\ now = 0
    /\ lastOp = [op |-> "init"]
    /\ watch = NoWatch
    /\ variant \in Variants
    /\ req = <<>>
    /\ out = <<>>
    /\ done = NoResponse
    /\ env \in NodeEnvs
    /\ limiter = NoLimiter
    /\ NEWS_API_KEY = TRUE
    /\ stats = NoStats
    /\ Idle

ProxyHeadlinesQueries == {HQ(Absent, Absent), HQ(Given(<<"x">>), Absent)}

ProxySearchQueries ==
    { SQ(Given(<<"a", "b">>)), SQ(Given(<<"a">>)), SQ(Absent),
      [SQ(Given(<<"a", "b">>)) EXCEPT !.sortBy = Given(<<"x">>)] }

\* upstream bodies: a total below the number of articles that pass the
\* filter, and a body without a total
ProxyArticlePayloads ==
    { [status |-> "ok", totalResults |-> Num(0),
       articles |-> <<Removed, Good1, NoUrl>>],
      [status |-> "ok", totalResults |-> Undefined, articles |-> <<Good2>>] }

ProxyArticleOutcomes ==
    {[kind |-> "body", data |-> p] : p \in ProxyArticlePayloads} \cup Failures

NextProxy ==
    \/ \E q \in ProxyHeadlinesQueries, o \in ProxyArticleOutcomes :
         Headlines(q, o, 0)
    \/ \E q \in ProxySearchQueries, o \in ProxyArticleOutcomes :
         Search(q, o, 0)
    \/ \E q \in RouteSourcesQueries, o \in SourcesOutcomes : Sources(q, o, 0)
    \/ Health
    \/ ClearCacheRoute
    \/ \E q \in ProxyHeadlinesQueries, o \in ProxyArticleOutcomes :
         HeadlinesAlwaysOn(q, o, 0)
    \/ \E q \in ProxySearchQueries, o \in ProxyArticleOutcomes :
         SearchAlwaysOn(q, o, 0)
    \/ \E q \in RouteSourcesQueries, o \in SourcesOutcomes :
         SourcesAlwaysOn(q, o, 0)
    \/ HealthAlwaysOn
    \/ ClearCacheAlwaysOn
    \/ CheckPeriod
    \/ Tick

SpecProxy == InitProxy /\ [][NextProxy]_vars

(***************************************************************************)
(* Request governor: router.use(newsRateLimit) runs ahead of every route   *)
(* of the router, newsRoutes.js:53-70 and part_000:16-29.  The limiter is  *)
(* express-rate-limit with its in-memory store, followed here for one      *)
(* client: the first counted request opens a window of windowMs, every     *)
(* counted request adds a hit, a request whose hit exceeds max is answered *)
(* 429 with the configured message and does not reach its handler, and a   *)
(* request at or after the reset time opens a new window.  limiter.hits    *)
(* and limiter.resetTime are the state of the limiter; limiter.start and   *)
(* limiter.admitted follow the 15-minute window that the first request     *)
(* opened and the requests of that window that reached their handler.      *)
(* An admitted request of the serverless variant then passes the          *)
(* environment validation middleware, newsRoutes.js:72-83.                 *)
(***************************************************************************)
\* max of the limiter: 200 in the serverless and 100 in the always-on
\* variant, scaled to 2 and 1
RateMax == IF variant = "serverless" THEN RATE_MAX_SERVERLESS
           ELSE RATE_MAX_ALWAYSON

\* a skip function that skips every request
skip_Always(v, e) == TRUE

\* the skip option, newsRoutes.js:64-67; the always-on limiter has none
skip(v, e) == v = "serverless" /\ e = "development"

\* a limiter that denies the request that reaches max
withinMax_Below(hits, max) == hits < max

\* express-rate-limit admits a request unless its hit exceeds max
withinMax(hits, max) == hits <= max

\* the limiter on a request at time t: the hits and the reset time it
\* leaves and whether the request goes on to its handler
rateLimit(l, t, skipped, max) ==
    IF skipped THEN [admit |-> TRUE, hits |-> l.hits, resetTime |-> l.resetTime]
    ELSE LET open == l.resetTime >= 0 /\ t < l.resetTime
             hits == IF open THEN l.hits + 1 ELSE 1
         IN  [admit |-> withinMax(hits, max), hits |-> hits,
              resetTime |-> IF open THEN l.resetTime ELSE t + RATE_WINDOW]

\* the body of the limiter's 429, newsRoutes.js:56-60
TooMany429 ==
    [status |-> 429,
     message |-> "Too many news requests, please try again later.",
     retryAfter |-> "15 minutes", error |-> None]

\* a request answered by the limiter
Deny(route) ==
    /\ done' = ErrorResponse(route, <<>>, TooMany429)
    /\ lastOp' = [op |-> "rateLimit", route |-> route]
    /\ UNCHANGED <<newsCache, now>>

\* a request of the window the first request opened: the window it falls
\* into and the requests of that window that reached their handler
Window(l, t, admit) ==
    LET open == l.start >= 0 /\ t - l.start < RATE_WINDOW
        before == IF open THEN l.admitted ELSE 0
    IN  [start |-> IF open THEN l.start ELSE t,
         admitted |-> IF admit THEN before + 1 ELSE before]

\* router.use(newsRateLimit) on a request: the limiter counts it
RateLimit ==
    LET g == rateLimit(limiter, now, skip(variant, env), RateMax)
        w == Window(limiter, now, g.admit)
    IN  /\ g.hits <= RateMax + MaxOver
        /\ w.admitted <= RateMax + MaxOver
        /\ limiter' = [hits |-> g.hits, resetTime |-> g.resetTime,
                       start |-> w.start, admitted |-> w.admitted]

\* the limiter calls next(): the request goes on to its handler
Admitted == rateLimit(limiter, now, skip(variant, env), RateMax).admit

\* the body of the 500 of the environment validation, newsRoutes.js:75-79
ConfigurationError500 ==
    [status |-> 500, message |-> "News service configuration error",
     retryAfter |-> None, error |-> "Service temporarily unavailable"]

\* a middleware that lets every request through
keyMissing_Never(v, key) == FALSE

\* `!NEWS_API_KEY` of the environment validation middleware of the
\* serverless router, newsRoutes.js:73; the always-on router has none
keyMissing(v, key) == v = "serverless" /\ ~key

\* a request answered by the environment validation middleware,
\* newsRoutes.js:72-83
ConfigurationError(route) ==
    /\ done' = ErrorResponse(route, <<>>, ConfigurationError500)
    /\ lastOp' = [op |-> "configuration", route |-> route]
    /\ UNCHANGED <<newsCache, now>>

\* the counters after the step op: NodeCache.get counts a hit or a miss,
\* flushAll resets both; the Map of the serverless variant keeps none.
\* lookups counts the lookups of either variant
countLookups(st, v, op) ==
    IF op.op \in ProxyRoutes
    THEN IF ~op.looked THEN st
         ELSE [hits |-> IF v = "alwaysOn" /\ op.calls = 0
                        THEN st.hits + 1 ELSE st.hits,
               misses |-> IF v = "alwaysOn" /\ op.calls = 1
                          THEN st.misses + 1 ELSE st.misses,
               lookups |-> st.lookups + 1]
    ELSE IF op.op = "clear-cache" /\ v = "alwaysOn"
    THEN [hits |-> 0, misses |-> 0, lookups |-> st.lookups]
    ELSE st

\* the counters follow the step
Counted == stats' = countLookups(stats, variant, lastOp')

\* GET /headlines through the limiter and, when admitted, the handler
GovernedHeadlines(q, o) ==
    /\ RateLimit
    /\ IF ~Admitted THEN Deny("headlines")
       ELSE IF keyMissing(variant, NEWS_API_KEY)
       THEN ConfigurationError("headlines")
       ELSE HeadlinesHandler(q, o, 0) \/ HeadlinesAlwaysOnHandler(q, o, 0)
    /\ Counted
    /\ UNCHANGED <<watch, keyVars, env, NEWS_API_KEY, concVars, bookVars>>

\* GET /search through the limiter and, when admitted, the handler
GovernedSearch(q, o) ==
    /\ RateLimit
    /\ IF ~Admitted THEN Deny("search")
       ELSE IF keyMissing(variant, NEWS_API_KEY)
       THEN ConfigurationError("search")
       ELSE SearchHandler(q, o, 0) \/ SearchAlwaysOnHandler(q, o, 0)
    /\ Counted
    /\ UNCHANGED <<watch, keyVars, env, NEWS_API_KEY, concVars, bookVars>>

\* GET /sources through the limiter and, when admitted, the handler
GovernedSources(q, o) ==
    /\ RateLimit
    /\ IF ~Admitted THEN Deny("sources")
       ELSE IF keyMissing(variant, NEWS_API_KEY)
       THEN ConfigurationError("sources")
       ELSE SourcesHandler(q, o, 0) \/ SourcesAlwaysOnHandler(q, o, 0)
    /\ Counted
    /\ UNCHANGED <<watch, keyVars, env, NEWS_API_KEY, concVars, bookVars>>

\* GET /health through the limiter and, when admitted, the handler
GovernedHealth ==
    /\ RateLimit
    /\ IF ~Admitted THEN Deny("health")
       ELSE IF keyMissing(variant, NEWS_API_KEY)
       THEN ConfigurationError("health")
       ELSE HealthHandler \/ HealthAlwaysOnHandler
    /\ Counted
    /\ UNCHANGED <<watch, keyVars, env, NEWS_API_KEY, concVars, bookVars>>

\* POST /clear-cache through the limiter and, when admitted, the handler
GovernedClearCache ==
    /\ RateLimit
    /\ IF ~Admitted THEN Deny("clear-cache")
       ELSE IF keyMissing(variant, NEWS_API_KEY)
       THEN ConfigurationError("clear-cache")
       ELSE ClearCacheRouteHandler \/ ClearCacheAlwaysOnHandler
    /\ Counted
    /\ UNCHANGED <<watch, keyVars, env, NEWS_API_KEY, concVars, bookVars>>

\* a headlines request with the default category and one with a category
\* the validation rejects
LimitHeadlinesQueries == {HQ(Absent, Absent), HQ(Given(<<"x">>), Absent)}

LimitSearchQueries == {SQ(Given(<<"a", "b">>))}

\* the upstream answers with an ok body, with or without its articles, or
\* times out
LimitArticleOutcomes ==
    { [kind |-> "body",
       data |-> [status |-> "ok", totalResults |-> Num(1),
                 articles |-> <<Good1>>]],
      [kind |-> "body", data |-> [status |-> "ok", totalResults |-> Num(0)]],
      [kind |-> "timeout"] }

\* the upstream answers with an ok body, with or without its sources, or
\* with the status 500
LimitSourcesOutcomes ==
    { [kind |-> "body", data |-> [status |-> "ok", sources |-> <<"s1">>]],
      [kind |-> "body", data |-> [status |-> "ok"]],
      [kind |-> "http", status |-> 500] }

\* the service starts in either variant and either NODE_ENV, with or
\* without NEWS_API_KEY
InitLimit ==
    /\ newsCache = <<>>
    /\ now = 0
    /\ lastOp = [op |-> "init"]
    /\ watch = NoWatch
    /\ variant \in Variants
    /\ req = <<>>
    /\ out = <<>>
    /\ done = NoResponse
    /\ env \in NodeEnvs
    /\ limiter = NoLimiter
    /\ NEWS_API_KEY \in BOOLEAN
    /\ stats = NoStats
    /\ Idle

NextLimit ==
    \/ \E q \in LimitHeadlinesQueries, o \in LimitArticleOutcomes :
         GovernedHeadlines(q, o)
    \/ \E q \in LimitSearchQueries, o \in LimitArticleOutcomes :
         GovernedSearch(q, o)
    \/ \E q \in RouteSourcesQueries, o \in LimitSourcesOutcomes :
         GovernedSources(q, o)
    \/ GovernedHealth
    \/ GovernedClearCache
    \/ Tick

SpecLimit == InitLimit /\ [][NextLimit]_vars

(***************************************************************************)
(* Properties of the cache store                                           *)
(***************************************************************************)
\* the clock stays within its bound and the store holds each key once
TypeOK ==
    /\ now \in 0..MaxTime
    /\ Cardinality(MapKeys(newsCache)) = Len(newsCache)

\* C1: after any sequence of setToCache, getFromCache, clearExpiredCache and
\* clear calls the store never holds more entries than the capacity.
C1_SizeWithinCapacity == Len(newsCache) <= CACHE_LIMIT

\* keys removed from the store by the step
Evicted == MapKeys(newsCache) \ MapKeys(newsCache')

\* C2: a setToCache call evicts only when the store is full and the key is
\* not yet present; it then evicts exactly one entry, the oldest one.
C2_EvictOnlyFullAndNew ==
    [][lastOp'.op = "set" =>
         /\ Evicted # {} =>
              /\ Len(newsCache) >= CACHE_LIMIT
              /\ ~MapHas(newsCache, lastOp'.key)
         /\ Cardinality(Evicted) <= 1
         /\ \A e \in Evicted : e = newsCache[1].key]_vars

\* C3: setToCache for a key already present replaces that key's value and
\* expiry in place, removes no other entry and keeps the insertion order,
\* at every store size.
C3_OverwriteInPlace ==
    [][(lastOp'.op = "set" /\ MapHas(newsCache, lastOp'.key)) =>
         /\ Len(newsCache') = Len(newsCache)
         /\ \A i \in 1..Len(newsCache) :
              newsCache'[i] =
                IF newsCache[i].key = lastOp'.key
                THEN [key |-> lastOp'.key, data |-> lastOp'.data,
                      expiry |-> now + lastOp'.ttl]
                ELSE newsCache[i]]_vars

C5_RoundTripNewKeys ==
    (lastOp.op = "get" /\ watch.on /\ now < watch.exp
       /\ watch.news < CACHE_LIMIT)
    => (lastOp.hit /\ lastOp.data = watch.v)

\* C5 amended: when the observed set inserted its key as a new key, a get
\* of that key strictly before its expiry, with no later set of that key,
\* no clear and fewer than capacity later setToCache calls for other keys
\* (new or already present), returns the observed value.
C5_RoundTripNewEntry ==
    (lastOp.op = "get" /\ watch.on /\ now < watch.exp
       /\ watch.wasNew /\ watch.sets < CACHE_LIMIT)
    => (lastOp.hit /\ lastOp.data = watch.v)

\* a newly inserted key is read back after another key was set and the
\* clock advanced
C5_Witness ==
    /\ lastOp.op = "get"
    /\ watch.on
    /\ watch.wasNew
    /\ watch.sets = CACHE_LIMIT - 1
    /\ now > 0
    /\ now < watch.exp
    /\ lastOp.hit
    /\ lastOp.data = watch.v

BothKeyed == out # <<>> /\ out[1].st = "keyed" /\ out[2].st = "keyed"

\* C7: two requests of one namespace whose upstream parameters differ never
\* get the same cache key.
C7_KeyInjective ==
    (BothKeyed /\ out[1].params # out[2].params) => out[1].key # out[2].key

\* the normal form of a query: the search phrase trimmed, page and pageSize
\* as integers, every other parameter as given
Canonical(r) ==
    LET q == r.query
        num(p, d) == parseInt(Default(p, d))
    IN  CASE r.route = "headlines" ->
               <<q.category, q.country, num(q.page, S_1),
                 num(q.pageSize, S_20)>>
          [] r.route = "search" ->
               <<Trim(q.q.s), num(q.page, S_1), num(q.pageSize, S_20),
                 q.sortBy, q.language>>
          [] r.route = "sources" ->
               <<q.category, q.language, q.country>>

\* C8: in both variants, requests that are equal after normalization (the
\* search phrase trimmed, page and pageSize as integers) get the same key.
C8_EquivalentSameKey ==
    (BothKeyed /\ Canonical(req[1]) = Canonical(req[2]))
    => out[1].key = out[2].key

\* a JS number that is a number and at most n
AtMost(v, n) == ~v.nan /\ v.n <= n

PageSizeMax ==
    IF variant = "serverless" THEN PAGE_SIZE_MAX_SERVERLESS
    ELSE PAGE_SIZE_MAX_ALWAYSON

PageMax(route) ==
    IF route = "headlines" THEN HEADLINES_PAGE_MAX ELSE SEARCH_PAGE_MAX

\* C13: for every headlines or search request that reaches the upstream
\* call, the pageSize sent upstream is at most the maximum of the variant
\* and, in the serverless variant, the page sent upstream is at most 5 for
\* headlines and 3 for search, whatever page and pageSize the client gave.
C13_PaginationCapped ==
    \A i \in 1..Len(out) :
      (out[i].st = "keyed" /\ req[i].route \in {"headlines", "search"}) =>
        /\ AtMost(out[i].params.pageSize, PageSizeMax)
        /\ variant = "serverless" =>
             AtMost(out[i].params.page, PageMax(req[i].route))
(***************************************************************************)
(* Properties of the route handlers                                        *)
(***************************************************************************)
TtlOf(route) == IF route = "sources" THEN SOURCES_TTL ELSE CACHE_TTL

C10_SweptBeforeLookup ==
    (lastOp.op \in ProxyRoutes /\ lastOp.looked) => ~lastOp.stale
(***************************************************************************)
(* Properties of the upstream fetch                                        *)
(***************************************************************************)
\* an article with every property the contract asks for
Complete(a) ==
    /\ a.title # ""
    /\ a.title # "[Removed]"
    /\ a.description # ""
    /\ a.url # ""
    /\ a.urlToImage # ""

ArticleRoutes == {"headlines", "search"}

\* the data of a headlines or search result
HasArticles(d) == "articles" \in DOMAIN d

\* C11: in both variants every article of a headlines or search response,
\* and of every entry cached for one, has a non-empty title other than
\* '[Removed]', a non-empty description, a non-empty url and a non-empty
\* urlToImage.
C11_ArticlesComplete ==
    /\ (done.route \in ArticleRoutes /\ done.status = 200) =>
         \A i \in 1..Len(done.data.articles) :
           Complete(done.data.articles[i])
    /\ \A j \in 1..Len(newsCache) :
         HasArticles(newsCache[j].data) =>
           \A i \in 1..Len(newsCache[j].data.articles) :
             Complete(newsCache[j].data.articles[i])

\* C12: in every successful headlines and search response, and in the
\* entry cached for it, totalResults is the number of articles, whatever
\* total the upstream body carries, a smaller or a missing one included.
C12_TotalIsCount ==
    /\ (done.route \in ArticleRoutes /\ done.status = 200) =>
         done.data.totalResults = Num(Len(done.data.articles))
    /\ \A j \in 1..Len(newsCache) :
         HasArticles(newsCache[j].data) =>
           newsCache[j].data.totalResults =
             Num(Len(newsCache[j].data.articles))
\* the request fails the input validation the contract describes
FailsValidation(route, q) ==
    IF route = "headlines"
    THEN Default(q.category, S_general) \notin ValidCategories
    ELSE IF ~q.q.given THEN TRUE
    ELSE \/ Len(Trim(q.q.s)) < 2
         \/ Default(q.sortBy, S_publishedAt) \notin ValidSortBy

\* C14 as stated: a request that fails input validation is answered 400
\* without any cache lookup, insertion, deletion (the expiry sweep
\* included) or upstream call.
C14_RejectedTouchesNothing ==
    [][(lastOp'.op \in ArticleRoutes
          /\ FailsValidation(lastOp'.op, lastOp'.query)) =>
         /\ done'.status = 400
         /\ ~lastOp'.looked
         /\ lastOp'.calls = 0
         /\ newsCache' = newsCache]_vars

\* C14 amended: a request that fails input validation is answered 400
\* without any cache lookup, insertion or upstream call; the serverless
\* handler has swept the store before validating, which deletes exactly the
\* entries past their expiry, and the always-on handler leaves the store
\* unchanged.
C14_RejectedOnlySweeps ==
    [][(lastOp'.op \in ArticleRoutes
          /\ FailsValidation(lastOp'.op, lastOp'.query)) =>
         /\ done'.status = 400
         /\ ~lastOp'.looked
         /\ lastOp'.calls = 0
         /\ now' = now
         /\ newsCache' =
              IF variant = "serverless"
              THEN SelectSeq(newsCache, LAMBDA e : e.expiry >= now)
              ELSE newsCache]_vars

\* a serverless request was rejected after its sweep had deleted an entry
\* and left another one in the store
C14_Witness ==
    /\ lastOp.op \in ArticleRoutes
    /\ done.status = 400
    /\ lastOp.swept > 0
    /\ newsCache # <<>>
\* the latest request called upstream and the call came to outcome kind
\* (and, for an HTTP error, to status)
Fetched(kind) ==
    /\ lastOp.op \in ProxyRoutes
    /\ lastOp.calls = 1
    /\ lastOp.upstream.kind = kind

FetchedHttp(status) == Fetched("http") /\ lastOp.upstream.status = status

\* C15: on every route that calls upstream, in both variants, an upstream
\* call that exceeds the timeout is answered 408 with a retry hint and no
\* entry is written for the key of the request.
C15_TimeoutIs408 ==
    Fetched("timeout") =>
      /\ done.status = 408
      /\ done.body.retryAfter # None
      /\ ~MapHas(newsCache, done.key)

\* C16: on every route that calls upstream, an upstream HTTP 429 is
\* answered 429 with a retry hint, never 500.
C16_Upstream429Is429 ==
    FetchedHttp(429) =>
      /\ done.status = 429
      /\ done.body.retryAfter # None

\* C17: on every route that calls upstream and under every NODE_ENV, an
\* upstream HTTP 401 is answered 500 and the body does not carry the text
\* of the upstream error.
C17_Upstream401Generic ==
    FetchedHttp(401) =>
      /\ done.status = 500
      /\ done.body.error # ErrorMessage(lastOp.upstream)
(***************************************************************************)
(* Properties of the administration routes                                 *)
(***************************************************************************)
\* C20: clear-cache answers with clearedKeys equal to the number of entries
\* the store held right before the call and leaves the store empty; a
\* health request that is the next request after it, with no insertion in
\* between, reports a cache size of 0.
C20_ClearEmptiesStore ==
    [][/\ lastOp'.op = "clear-cache" =>
            /\ done'.status = 200
            /\ done'.data.clearedKeys = Len(newsCache)
            /\ newsCache' = <<>>
       /\ (lastOp'.op = "health" /\ done.route = "clear-cache") =>
            /\ done'.status = 200
            /\ done'.data.keys = 0]_vars

\* a health request followed the clearing of a store of two or more
\* entries
C20_Witness ==
    /\ lastOp.op = "health"
    /\ lastOp.cleared >= 2
    /\ done.data.keys = 0
(***************************************************************************)
(* Properties of the request governor                                      *)
(***************************************************************************)
\* what lastOp holds after a request to one of the five routes
RequestOps ==
    {"headlines", "search", "sources", "health", "clear-cache", "rateLimit"}

\* the requests of the running 15-minute window that reached their handler
AdmittedInWindow ==
    IF limiter.start >= 0 /\ now - limiter.start < RATE_WINDOW
    THEN limiter.admitted ELSE 0

\* the hits the limiter has counted in its running window
HitsInWindow ==
    IF limiter.resetTime >= 0 /\ now < limiter.resetTime
    THEN limiter.hits ELSE 0

\* the configuration in which the limiter is told to skip every request
SkipConfigured == variant = "serverless" /\ env = "development"

\* a request is admitted while fewer than max requests of the window have
\* been, and is otherwise answered 429 with a retry hint
AdmitsUpToMax ==
    IF AdmittedInWindow < RateMax THEN lastOp'.op # "rateLimit"
    ELSE /\ lastOp'.op = "rateLimit"
         /\ done'.status = 429
         /\ done'.body.retryAfter # None

\* the limiter counts the request, and a request it answers itself has
\* touched neither the store nor the clock
CountedFirst ==
    /\ limiter'.hits = HitsInWindow + 1
    /\ lastOp'.op = "rateLimit" => UNCHANGED <<newsCache, now>>

\* C18 as stated: for one client exactly max requests (200 serverless, 100
\* always-on) are admitted within one 15-minute window, the next request
\* of the window is denied with 429 and a retry hint, and once windowMs has
\* passed since the start of the window requests are admitted again.
C18_ExactlyMaxPerWindow ==
    [][lastOp'.op \in RequestOps => AdmitsUpToMax]_vars

\* C18 amended: the same, unless the serverless variant runs with NODE_ENV
\* 'development', where the limiter skips and so admits every request.
C18_ExactlyMaxUnlessSkipped ==
    [][lastOp'.op \in RequestOps =>
         IF SkipConfigured THEN lastOp'.op # "rateLimit"
         ELSE AdmitsUpToMax]_vars

\* the request after the max-th of a window was denied
C18_Witness ==
    /\ lastOp.op = "rateLimit"
    /\ done.status = 429
    /\ limiter.admitted = RateMax
    /\ limiter.hits = RateMax + 1

\* C19 as stated: every request to any of the five routes is counted by
\* the limiter before any cache lookup or upstream call, a request served
\* from the cache like one that misses, under every configuration.
C19_EveryRequestCounted ==
    [][lastOp'.op \in RequestOps => CountedFirst]_vars

\* C19 amended: the same, unless the serverless variant runs with NODE_ENV
\* 'development', where no request is counted or denied.
C19_CountedUnlessSkipped ==
    [][lastOp'.op \in RequestOps =>
         IF SkipConfigured
         THEN limiter'.hits = limiter.hits /\ lastOp'.op # "rateLimit"
         ELSE CountedFirst]_vars

\* a request served from the cache was counted as the second hit of its
\* window
C19_Witness ==
    /\ lastOp.op \in ProxyRoutes
    /\ done.cached
    /\ limiter.hits = 2

(***************************************************************************)
(* Properties of the health endpoint and of the whole pipeline             *)
(***************************************************************************)
\* C21: GET /news/health always responds with status 200, whatever the
\* cache contents, the client's rate-limit count and the configuration of
\* the upstream API key.
C21_HealthAlways200 == done.route = "health" => done.status = 200

\* C22: the health endpoint reports the size, the hit count and the miss
\* count of the cache, and hit count plus miss count equals the number of
\* cache lookups performed so far, in both deployment variants.
C22_HealthCountsLookups ==
    (done.route = "health" /\ done.status = 200) =>
        /\ {"keys", "hits", "misses"} \subseteq DOMAIN done.data
        /\ done.data.hits + done.data.misses = stats.lookups

(***************************************************************************)
(* Properties of the entries the proxy handlers store                      *)
(***************************************************************************)
\* the step stores the result of a fetch of the given route
Stores(route) ==
    /\ lastOp'.op = route
    /\ lastOp'.calls = 1
    /\ done'.status = 200

\* C23: an entry stored by the headlines or the search route expires 5
\* minutes (CACHE_TTL) after the time it was stored, an entry stored by the
\* sources route 1 hour (SOURCES_TTL) after; the expiry of every stored
\* entry is strictly later than its store time.
C23_ExpiryIsStoreTimePlusTtl ==
    [][/\ (Stores("headlines") \/ Stores("search")) =>
             ExpiryOf(newsCache', done'.key) = now' + CACHE_TTL
       /\ Stores("sources") =>
             ExpiryOf(newsCache', done'.key) = now' + SOURCES_TTL
       /\ (\E r \in ProxyRoutes : Stores(r)) =>
             ExpiryOf(newsCache', done'.key) > now']_vars

\* a sources result was stored after an upstream call that took a tick, and
\* expires SOURCES_TTL after the store time
C23_Witness ==
    /\ lastOp.op = "sources"
    /\ lastOp.calls = 1
    /\ done.status = 200
    /\ done.since = now
    /\ now > 0
    /\ ExpiryOf(newsCache, done.key) = now + SOURCES_TTL

\* the upstream call of the last request failed: it timed out, or was
\* answered with a status other than 2xx or with a body whose status is
\* not 'ok'
UpstreamFailed == lastOp.calls = 1 /\ ~BodyOk(lastOp.upstream)

\* C24: a proxy request makes at most one upstream call; a failed call is
\* not retried and is answered with one of the statuses 408, 429 and 500.
C24_OneCallFailureClassified ==
    lastOp.op \in ProxyRoutes =>
        /\ lastOp.calls \in {0, 1}
        /\ UpstreamFailed =>
             /\ done.route = lastOp.op
             /\ done.status \in {408, 429, 500}
             /\ lastOp.responses = 1

\* an upstream call answered 401 has been answered to the caller with 500
C24_Witness ==
    /\ lastOp.op = "sources"
    /\ UpstreamFailed
    /\ lastOp.upstream.kind = "http"
    /\ lastOp.upstream.status = 401
    /\ done.status = 500

\* C26: every headlines, search or sources request produces exactly one
\* response: no second response is attempted after one has been sent and
\* no exception leaves the handler, also when the ok body of the upstream
\* lacks its articles or sources array.
C26_ExactlyOneResponse ==
    lastOp.op \in ProxyRoutes =>
        /\ lastOp.responses = 1
        /\ ~lastOp.escaped

\* the step is a headlines, search or sources request, answered by its
\* handler or by a middleware in front of it
ProxyRequestStep ==
    \/ lastOp'.op \in ProxyRoutes
    \/ /\ lastOp'.op \in {"rateLimit", "configuration"}
       /\ lastOp'.route \in ProxyRoutes

\* the entries of store m
Entries(m) == {m[i] : i \in 1..Len(m)}

\* C27: a headlines, search or sources request that ends with a non-200
\* response leaves the entries of the cache and their values unchanged,
\* apart from the removal of expired entries; an entry is written only by
\* a request that is answered 200 with cached: false.
C27_FailureWritesNothing ==
    [][ProxyRequestStep =>
         /\ done'.status # 200 =>
              /\ Entries(newsCache') \subseteq Entries(newsCache)
              /\ \A e \in Entries(newsCache) \ Entries(newsCache') :
                   e.expiry < now'
         /\ ~(Entries(newsCache') \subseteq Entries(newsCache)) =>
              /\ done'.status = 200
              /\ ~done'.cached]_vars

\* a request that timed out upstream has left a stored entry in place
C27_Witness ==
    /\ lastOp.op \in ProxyRoutes
    /\ lastOp.calls = 1
    /\ done.status = 408
    /\ newsCache # <<>>

(***************************************************************************)
(* Concurrent headlines requests of the serverless variant.  Node runs a   *)
(* handler without interruption up to its `await axios.get(...)`,          *)
(* newsRoutes.js:142, and again from the return of that call on; only      *)
(* there other requests, and the clock, get their turn.  inflight holds    *)
(* the cache keys of the requests suspended at their upstream call.        *)
(***************************************************************************)
\* the variables the concurrent requests leave alone
concOthers ==
    <<watch, keyVars, routeVars, env, limiter, NEWS_API_KEY, stats, bookVars>>

\* sequence s without its i-th element
RemoveAt(s, i) == [j \in 1..(Len(s) - 1) |-> IF j < i THEN s[j] ELSE s[j + 1]]

\* a headlines request with cache key k from its start to its response
\* from the cache or to its upstream call, newsRoutes.js:86-148
ConcBegin(k) ==
    LET r == getFromCache(clearExpiredCache(newsCache, now), k, now)
    IN  /\ r.hit \/ Len(inflight) < MaxInflight
        /\ newsCache' = r.store
        /\ inflight' = IF r.hit THEN inflight ELSE Append(inflight, k)
        /\ lastOp' = [op |-> "begin", key |-> k, hit |-> r.hit]
        /\ UNCHANGED <<now, concOthers>>

\* the upstream call of the i-th suspended request returns the ok body d:
\* the result is stored and answered, newsRoutes.js:150-176
ConcFinish(i, d) ==
    /\ i \in 1..Len(inflight)
    /\ newsCache' = setToCache(newsCache, inflight[i], d, CACHE_TTL, now)
    /\ inflight' = RemoveAt(inflight, i)
    /\ lastOp' = [op |-> "finish", key |-> inflight[i], data |-> d]
    /\ UNCHANGED <<now, concOthers>>

\* the upstream call of the i-th suspended request fails: the catch block
\* answers and nothing is stored, newsRoutes.js:182-215
ConcFail(i) ==
    /\ i \in 1..Len(inflight)
    /\ inflight' = RemoveAt(inflight, i)
    /\ lastOp' = [op |-> "fail", key |-> inflight[i]]
    /\ UNCHANGED <<newsCache, now, concOthers>>

NextConc ==
    \/ \E k \in Keys : ConcBegin(k)
    \/ \E i \in 1..MaxInflight, d \in Datas : ConcFinish(i, d)
    \/ \E i \in 1..MaxInflight : ConcFail(i)
    \/ Tick

SpecConc == Init /\ [][NextConc]_vars

\* the entry under the key of the fetch that finished last is the result
\* of that fetch, value and expiry together
LastFetchStored ==
    lastOp.op = "finish" =>
        \E i \in 1..Len(newsCache) :
            newsCache[i] = [key |-> lastOp.key, data |-> lastOp.data,
                            expiry |-> now + CACHE_TTL]

\* C25: under any interleaving of concurrent proxy requests, suspended only
\* at their upstream call, the capacity bound holds in every reachable
\* state and the entry stored under a key is the complete result of one
\* finished fetch for that key (value and expiry written together, last
\* writer wins).
C25_ConcurrentStoreSound ==
    /\ Len(newsCache) <= CACHE_LIMIT
    /\ Cardinality(MapKeys(newsCache)) = Len(newsCache)
    /\ LastFetchStored

\* the store holds each key once and the last fetch under its key
EntriesComplete ==
    /\ Cardinality(MapKeys(newsCache)) = Len(newsCache)
    /\ LastFetchStored

(***************************************************************************)
(* Consultation booking: routes/chatbotRoutes.js (part_001, part_002),     *)
(* middleware/validation.js and controllers/consultationController.js in   *)
(* its serverless (server.js:239-578) and its always-on (part_005)         *)
(* version.  consultationsFile is consultations.json, uploads the set of   *)
(* the resume files multer has stored, named by the booking they came      *)
(* with, and bookings the number of requests received and the requests     *)
(* that are suspended at an awaited file or mail operation.  A controller  *)
(* runs without interruption between two awaits.                           *)
(***************************************************************************)
\* the variables the consultation requests leave alone
bookOthers ==
    <<newsCache, now, watch, keyVars, routeVars, env, limiter, NEWS_API_KEY,
      stats, concVars>>

\* the fields validateConsultationForm requires, validation.js:106-112
RequiredFields == {"fullName", "email", "phone", "age", "education"}

\* a form some required field of which is empty
validateConsultationForm_Fields(form) ==
    \E f \in RequiredFields : form[f] # ""

\* validateConsultationForm, validation.js:98-178, on forms whose fields
\* are either empty or well-formed: no error is collected when every
\* required field is there
validateConsultationForm(form) ==
    \A f \in RequiredFields : form[f] # ""

\* a complete form and a form without its email
Forms ==
    { [fullName |-> "Asha Rao", email |-> e, phone |-> "9876543210",
       age |-> "30", education |-> "B.Tech"] : e \in {"a@b.co", ""} }

\* fs.readFile and JSON.parse of consultations.json; a file that is not
\* there reads as the empty list, server.js:516-526 and :544-555,
\* part_005:258-264 and :281-292
readConsultations(file) == IF file.exists THEN file.consultations ELSE <<>>

\* index of the consultation with the id in list c, 0 when there is none
findIndex(c, id) ==
    IF \E j \in 1..Len(c) : c[j].id = id
    THEN CHOOSE j \in 1..Len(c) : c[j].id = id
    ELSE 0

\* the ids of the consultations in consultations.json
SavedIds ==
    {readConsultations(consultationsFile)[j].id :
       j \in 1..Len(readConsultations(consultationsFile))}

\* what a step of a consultation request leaves in lastOp: status is the
\* status of the response the step has sent, 0 when it has sent none
BookOp(op, r, status, emailed) ==
    [op |-> op, id |-> r.id, resume |-> r.resume, saved |-> r.saved,
     emailed |-> emailed, status |-> status]

\* a request of the controller suspended at an await
Suspended(kind, id, pc, resume, snapshot) ==
    [kind |-> kind, id |-> id, pc |-> pc, resume |-> resume,
     snapshot |-> snapshot, saved |-> FALSE]

\* the requests in progress with the i-th replaced by r
Resume(i, r) ==
    [bookings EXCEPT !.active = [bookings.active EXCEPT ![i] = r]]

\* the requests in progress without the i-th, which has been answered
Answered(i) == [bookings EXCEPT !.active = RemoveAt(bookings.active, i)]

\* router.post('/consultation/book'), part_001:49-82 and part_002:43-48:
\* multer stores the resume, validateConsultationForm answers 400 for a
\* form with errors, and bookConsultation runs up to the readFile of
\* saveConsultationToFile, server.js:247-288 and :505-520, part_005:9-44
\* and :247-262
BookReceive(form, resume) ==
    LET id == bookings.received + 1
        r == Suspended("book", id, "read", resume, <<>>)
    IN  /\ bookings.received < MaxBookings
        /\ Len(bookings.active) < MaxInflight
        /\ uploads' = IF resume THEN uploads \cup {id} ELSE uploads
        /\ IF validateConsultationForm(form)
           THEN /\ bookings' = [received |-> id,
                                active |-> Append(bookings.active, r)]
                /\ lastOp' = BookOp("bookStep", r, 0, FALSE)
           ELSE /\ bookings' = [bookings EXCEPT !.received = id]
                /\ lastOp' = BookOp("book", r, 400, FALSE)
        /\ UNCHANGED <<consultationsFile, bookOthers>>

\* saveConsultationToFile: readFile returns and writeFile is called,
\* server.js:520-532, part_005:262-270
BookRead(i) ==
    /\ i \in 1..Len(bookings.active)
    /\ bookings.active[i].kind = "book"
    /\ bookings.active[i].pc = "read"
    /\ LET r == [bookings.active[i] EXCEPT
                   !.pc = "write",
                   !.snapshot = readConsultations(consultationsFile)]
       IN  /\ bookings' = Resume(i, r)
           /\ lastOp' = BookOp("bookStep", r, 0, FALSE)
    /\ UNCHANGED <<consultationsFile, uploads, bookOthers>>

\* the record bookConsultation builds, server.js:268-282, part_005:27-41
consultationData(r) ==
    [id |-> r.id, status |-> "pending", resume |-> r.resume]

\* a controller that gives up a booking whose save has failed
saveFailureSwallowed_Never(v) == FALSE

\* the try around saveConsultationToFile of the serverless controller,
\* whose catch only logs, server.js:287-293; the always-on controller
\* awaits the save bare, part_005:44
saveFailureSwallowed(v) == v = "serverless"

\* writeFile of saveConsultationToFile returns: on success the list read
\* before, with the new record, is the file and sendConsultationEmails is
\* called; on failure the serverless controller goes on to the emails all
\* the same, and the always-on controller removes the resume and answers
\* 500; server.js:529-540 and :287-298, part_005:267-277 and :44-47, :78-96
BookWrite(i, ok) ==
    /\ i \in 1..Len(bookings.active)
    /\ bookings.active[i].kind = "book"
    /\ bookings.active[i].pc = "write"
    /\ LET r == bookings.active[i]
           next == [r EXCEPT !.pc = "email", !.saved = ok]
       IN  IF ok \/ saveFailureSwallowed(variant)
           THEN /\ consultationsFile' =
                     IF ok
                     THEN [exists |-> TRUE,
                           consultations |->
                             Append(r.snapshot, consultationData(r))]
                     ELSE consultationsFile
                /\ bookings' = Resume(i, next)
                /\ lastOp' = BookOp("bookStep", next, 0, FALSE)
                /\ UNCHANGED uploads
           ELSE /\ uploads' = uploads \ {r.id}
                /\ bookings' = Answered(i)
                /\ lastOp' = BookOp("book", r, 500, FALSE)
                /\ UNCHANGED consultationsFile
    /\ UNCHANGED bookOthers

\* sendConsultationEmails returns, having sent the emails or not, and the
\* booking is answered 200 either way, server.js:298-329, part_005:47-76
BookEmail(i, sent) ==
    /\ i \in 1..Len(bookings.active)
    /\ bookings.active[i].kind = "book"
    /\ bookings.active[i].pc = "email"
    /\ bookings' = Answered(i)
    /\ lastOp' = BookOp("book", bookings.active[i], 200, sent)
    /\ UNCHANGED <<consultationsFile, uploads, bookOthers>>

\* validStatuses of updateConsultationStatus, server.js:406
ValidStatuses == {"pending", "confirmed", "completed", "cancelled"}

\* one more request has been received
Received == [bookings EXCEPT !.received = @ + 1]

\* a request of the admin answered without a write: 400 or 404
AdminAnswer(op, id, status) ==
    /\ lastOp' = [op |-> op, id |-> id, resume |-> FALSE, saved |-> FALSE,
                  emailed |-> FALSE, status |-> status]
    /\ bookings' = Received
    /\ UNCHANGED <<consultationsFile, uploads>>

\* list c with the status of its j-th consultation set
withStatus(c, j, status) == [c EXCEPT ![j].status = status]

\* updateConsultationStatus up to its saveConsultationsToFile: the status
\* is validated, the list is loaded and the consultation is looked up and
\* changed in the loaded list, server.js:401-434, part_005:142-176
UpdateLoad(id, status) ==
    LET c == readConsultations(consultationsFile)
        j == findIndex(c, id)
    IN  /\ bookings.received < MaxBookings
        /\ Len(bookings.active) < MaxInflight
        /\ IF status \notin ValidStatuses
           THEN AdminAnswer("update", id, 400)
           ELSE IF j = 0 THEN AdminAnswer("update", id, 404)
           ELSE /\ bookings' =
                     [Received EXCEPT !.active =
                        Append(@, Suspended("update", id, "save", FALSE,
                                            withStatus(c, j, status)))]
                /\ lastOp' = [op |-> "adminStep", id |-> id]
                /\ UNCHANGED <<consultationsFile, uploads>>
        /\ UNCHANGED bookOthers

\* deleteConsultation up to its saveConsultationsToFile: the list is
\* loaded, the resume of the consultation is unlinked and the consultation
\* is spliced out of the loaded list, server.js:457-486, part_005:200-228
DeleteLoad(id) ==
    LET c == readConsultations(consultationsFile)
        j == findIndex(c, id)
    IN  /\ bookings.received < MaxBookings
        /\ Len(bookings.active) < MaxInflight
        /\ IF j = 0 THEN AdminAnswer("delete", id, 404)
           ELSE /\ uploads' = uploads \ {id}
                /\ bookings' =
                     [Received EXCEPT !.active =
                        Append(@, Suspended("delete", id, "save", FALSE,
                                            RemoveAt(c, j)))]
                /\ lastOp' = [op |-> "adminStep", id |-> id]
                /\ UNCHANGED consultationsFile
        /\ UNCHANGED bookOthers

\* writeFile of saveConsultationsToFile returns and the admin's request is
\* answered: 200 with the list it had loaded and changed written over the
\* file, 500 when the write failed; server.js:434-454, :486-502 and
\* :563-574, part_005:176-197, :228-244 and :300-308
AdminSave(i, ok) ==
    /\ i \in 1..Len(bookings.active)
    /\ bookings.active[i].kind \in {"update", "delete"}
    /\ consultationsFile' =
         IF ok THEN [exists |-> TRUE,
                     consultations |-> bookings.active[i].snapshot]
         ELSE consultationsFile
    /\ bookings' = Answered(i)
    /\ lastOp' = [op |-> bookings.active[i].kind,
                  id |-> bookings.active[i].id, resume |-> FALSE,
                  saved |-> ok, emailed |-> FALSE,
                  status |-> IF ok THEN 200 ELSE 500]
    /\ UNCHANGED <<uploads, bookOthers>>

\* the service starts in either version of the controller
InitBook ==
    /\ newsCache = <<>>
    /\ now = 0
    /\ lastOp = [op |-> "init"]
    /\ watch = NoWatch
    /\ variant \in Variants
    /\ req = <<>>
    /\ out = <<>>
    /\ done = NoResponse
    /\ env = "production"
    /\ limiter = NoLimiter
    /\ NEWS_API_KEY = TRUE
    /\ stats = NoStats
    /\ Idle

NextBook ==
    \/ \E form \in Forms, resume \in BOOLEAN : BookReceive(form, resume)
    \/ \E i \in 1..MaxInflight : BookRead(i)
    \/ \E i \in 1..MaxInflight, ok \in BOOLEAN : BookWrite(i, ok)
    \/ \E i \in 1..MaxInflight, sent \in BOOLEAN : BookEmail(i, sent)
    \/ \E id \in 1..MaxBookings, status \in {"confirmed", "archived"} :
         UpdateLoad(id, status)
    \/ \E id \in 1..MaxBookings : DeleteLoad(id)
    \/ \E i \in 1..MaxInflight, ok \in BOOLEAN : AdminSave(i, ok)

SpecBook == InitBook /\ [][NextBook]_vars

\* the consultation requests keep to their bounds
BookTypeOK ==
    /\ bookings.received \in 0..MaxBookings
    /\ Len(bookings.active) <= MaxInflight
    /\ uploads \subseteq 1..MaxBookings

(***************************************************************************)
(* Properties of the consultation booking                                  *)
(***************************************************************************)
\* the consultation a delete request answered 200 by the step has deleted
DeletedByStep ==
    IF lastOp'.op = "delete" THEN {lastOp'.id} ELSE {}

\* C28: under any interleaving of concurrent bookings, status updates and
\* deletes, every consultation whose saveConsultationToFile completed is in
\* consultations.json afterwards: no step of a request removes from the
\* file the record of another request.
C28_NoRecordLost ==
    [][(SavedIds \ DeletedByStep) \subseteq SavedIds']_vars

\* C29: whenever a booking that uploaded a resume ends with an error
\* response, 400 from the form validation or 500 from the controller, the
\* uploaded resume has been removed from storage.
C29_ErrorRemovesResume ==
    (lastOp.op = "book" /\ lastOp.resume /\ lastOp.status \in {400, 500}) =>
        lastOp.id \notin uploads

\* C30: bookConsultation sends the emails and answers 200 only after the
\* record has been persisted; if persisting fails, no email is sent and
\* the response is 500; once the record is persisted, an email failure
\* does not fail the booking.
C30_SuccessOnlyAfterSave ==
    (lastOp.op = "book" /\ lastOp.status # 400) =>
        /\ lastOp.status \in {200, 500}
        /\ lastOp.status = 200 <=> lastOp.saved
        /\ lastOp.emailed => lastOp.saved

\* C30, as the two controllers have it: no email goes out for a booking
\* that is not answered 200, and a persisted record is always answered
\* 200, whatever the outcome of the emails; when persisting fails, the
\* always-on controller sends no email and answers 500, while the
\* serverless controller goes on to the emails and answers 200.
C30_SuccessAfterSaveAttempt ==
    (lastOp.op = "book" /\ lastOp.status # 400) =>
        /\ lastOp.status \in {200, 500}
        /\ lastOp.emailed => lastOp.status = 200
        /\ lastOp.saved => lastOp.status = 200
        /\ ~lastOp.saved =>
             lastOp.status = IF variant = "serverless" THEN 200 ELSE 500

\* the serverless controller has answered 200 and sent the emails for a
\* booking whose save failed
C30_Witness ==
    /\ lastOp.op = "book"
    /\ variant = "serverless"
    /\ ~lastOp.saved
    /\ lastOp.emailed
    /\ lastOp.status = 200

====
